---- MODULE Spec2Model ----
(***************************************************************************)
(* A model of the relative/constraint layout engine of iori2333/render:    *)
(* LinearPolynomial, Inequality, Box and DependencyGraph of                *)
(* render/objects/relative/utils.py, RelativeContainer of                  *)
(* render/objects/relative/container.py, and the memoization of            *)
(* render/base/cacheable.py that RelativeContainer relies on.              *)
(*                                                                         *)
(* Numbers: the program computes with Python ints and floats.  Every value *)
(* the layout produces is a dyadic rational, so a number v is represented  *)
(* by the integer v * Den.                                                 *)
(***************************************************************************)
EXTENDS Integers, Sequences, FiniteSets, TLC

VARIABLES
    sizes,        \* obj -> <<width, height>>: the read-only sizes of the children
    hashSeed,     \* decides the iteration order of the program's sets
    strict,       \* RelativeContainer.strict
    children,     \* RelativeContainer.children, a list
    graph,        \* RelativeContainer._graph: [nodes, edge]
    offsets,      \* RelativeContainer._offsets, a dict child -> (dx, dy)
    constraints,  \* RelativeContainer._constraints, a list of (obj, relation, target)
    cache,        \* RelativeContainer._cache_, a dict method name -> memoized value
    peer,         \* a second RelativeContainer, container 2: the record of its fields
    parents,      \* _cache_parent_ of every object: the children lists it is
                  \* registered with, each named by its container, 1 or 2
    ret           \* the outcome of the last call: its name, arguments and result

vars == <<sizes, hashSeed, strict, children, graph, offsets, constraints, cache,
         peer, parents, ret>>

----------------------------------------------------------------------------
(* Bounds of the model. *)

MaxChildren == 2        \* children added in one behaviour of Spec
MaxConstraintCalls == 2 \* add_constraint calls in one behaviour of SpecRGB
MaxTopoNode == 2        \* the nodes of SpecTopo are 0 .. MaxTopoNode
MaxEdges == 3           \* add_edge calls in one behaviour of SpecTopo
MaxBoxCalls == 2        \* offset and relative_to calls in one behaviour of SpecBox

K == 0                  \* the container itself, the root node of its graph
NumObjs == MaxChildren + 1
Objs == 1 .. NumObjs    \* the objects of a scene

Den == 2 * 2 * 2        \* numbers are kept in units of 1/Den
Num(n) == n * Den

----------------------------------------------------------------------------
(* Generic helpers. *)

Last(s) == s[Len(s)]
Front(s) == SubSeq(s, 1, Len(s) - 1)
Range(s) == {s[i] : i \in 1 .. Len(s)}
Max2(a, b) == IF a >= b THEN a ELSE b

RECURSIVE SeqMin(_)
SeqMin(s) == IF Len(s) = 1 THEN s[1]
             ELSE LET m == SeqMin(Tail(s)) IN IF s[1] <= m THEN s[1] ELSE m

(* The elements of S as a sequence, by increasing key. *)
RECURSIVE SortBy(_, _)
SortBy(S, key) ==
    IF S = {} THEN <<>>
    ELSE LET m == CHOOSE a \in S : \A b \in S : key[a] <= key[b]
         IN <<m>> \o SortBy(S \ {m}, key)

----------------------------------------------------------------------------
(* The relation names a caller can pass.  The first thirteen are the       *)
(* Relative vocabulary; the others are names outside it.                   *)

RelNames == << "above", "below", "left", "right", "align_top", "align_bottom",
               "align_left", "align_right", "center_vertical",
               "center_horizontal", "center", "relative", "prior_to",
               "constrain", "w", "bogus" >>

RelIndex(r) == CHOOSE i \in 1 .. Len(RelNames) : RelNames[i] = r

(* Iteration order of a Python set.  The program iterates sets of nodes    *)
(* (objects, hashed by identity) and sets of relation names (strings,      *)
(* hashed with a per-process seed): the order is fixed for one process and *)
(* arbitrary across processes.  hashSeed picks the order for a behaviour.  *)
HashSeeds == {1, 2}
NodeRank(seed, n) == IF seed = 1 THEN n ELSE 0 - n
RelRank(seed, r) == IF seed = 1 THEN RelIndex(r) ELSE 0 - RelIndex(r)

IterNodes(S, seed) == SortBy(S, [n \in S |-> NodeRank(seed, n)])
IterRels(S, seed) == SortBy(S, [r \in S |-> RelRank(seed, r)])

----------------------------------------------------------------------------
(* DependencyGraph.  nodes is the key order of the dicts graph and         *)
(* reverse_graph (both get every node at the same time); edge holds a      *)
(* triple <<node, successor, label>> for every label of the dict edge.     *)

EmptyGraph == [nodes |-> <<>>, edge |-> {}]

add_node(g, node) ==
    IF node \in Range(g.nodes) THEN g
    ELSE [g EXCEPT !.nodes = Append(@, node)]

add_edge(g, node, successor, label) ==
    LET g1 == add_node(add_node(g, node), successor)
    IN [g1 EXCEPT !.edge = @ \cup {<<node, successor, label>>}]

Successors(g, node) == {e[2] : e \in {d \in g.edge : d[1] = node}}

get_predecessors(g, node) == {e[1] : e \in {d \in g.edge : d[2] = node}}

get_edges(g, node, successor) ==
    {e[3] : e \in {d \in g.edge : d[1] = node /\ d[2] = successor}}

(* A successor loop that queues a successor as soon as one of its          *)
(* predecessors is done, whatever predecessors remain.                     *)
RECURSIVE VisitSuccessorsEager(_, _, _)
VisitSuccessorsEager(succs, node, st) ==
    IF succs = <<>> THEN st
    ELSE LET s == Head(succs)
             had == node \in st.rev[s]
             rev1 == [st.rev EXCEPT ![s] = {}]
             q1 == IF had THEN Append(st.queue, s) ELSE st.queue
         IN VisitSuccessorsEager(Tail(succs), node, [rev |-> rev1, queue |-> q1])

(* The inner for loop of topological_sort: node has been popped; st is     *)
(* [rev, queue], the working copy of reverse_graph and the queue.          *)
RECURSIVE VisitSuccessors(_, _, _)
VisitSuccessors(succs, node, st) ==
    IF succs = <<>> THEN st
    ELSE LET s == Head(succs)
             rev1 == [st.rev EXCEPT ![s] = @ \ {node}]
             q1 == IF rev1[s] = {} THEN Append(st.queue, s) ELSE st.queue
         IN VisitSuccessors(Tail(succs), node, [rev |-> rev1, queue |-> q1])

(* The while loop of topological_sort: queue.pop() takes the last entry. *)
RECURSIVE KahnLoop(_, _, _, _)
KahnLoop(g, seed, st, result) ==
    IF st.queue = <<>> THEN result
    ELSE LET node == Last(st.queue)
             st1 == [st EXCEPT !.queue = Front(st.queue)]
             st2 == VisitSuccessors(IterNodes(Successors(g, node), seed), node, st1)
         IN KahnLoop(g, seed, st2, Append(result, node))

(* The copy of reverse_graph and the queue of the nodes without           *)
(* predecessors, in the dict's order.                                      *)
KahnStart(g) ==
    [rev |-> [n \in Range(g.nodes) |-> get_predecessors(g, n)],
     queue |-> SelectSeq(g.nodes, LAMBDA n : get_predecessors(g, n) = {})]

(* result when the while loop ends *)
KahnResult(g, seed) == KahnLoop(g, seed, KahnStart(g), <<>>)

(* if len(result) != len(self.graph): raise ValueError *)
CheckLength(g, result) ==
    IF Len(result) # Len(g.nodes)
    THEN [ok |-> FALSE, order |-> <<>>]
    ELSE [ok |-> TRUE, order |-> result]

(* topological_sort without the length test *)
topological_sort_unchecked(g, seed) == [ok |-> TRUE, order |-> KahnResult(g, seed)]

(* topological_sort: [ok, order]; ok = FALSE is the ValueError             *)
(* "Cyclic dependency graph".                                              *)
topological_sort(g, seed) == CheckLength(g, KahnResult(g, seed))

----------------------------------------------------------------------------
(* LinearPolynomial: const + sum of coef * symbol over the symbols x, y,   *)
(* w, h (the container's box) and undef.  A symbol with coefficient 0 is   *)
(* absent from the dict symbols: __add__ drops zero coefficients and no    *)
(* other operation the layout uses produces one.  All fields are in units  *)
(* of 1/Den.                                                               *)

Symbols == {"x", "y", "w", "h", "u"}

LP(c, x, y, w, h, u) == [c |-> c, x |-> x, y |-> y, w |-> w, h |-> h, u |-> u]

of_const(c) == LP(c, 0, 0, 0, 0, 0)
SymX == LP(0, Den, 0, 0, 0, 0)
SymY == LP(0, 0, Den, 0, 0, 0)
SymW == LP(0, 0, 0, Den, 0, 0)
SymH == LP(0, 0, 0, 0, Den, 0)
SymUndef == LP(0, 0, 0, 0, 0, Den)

PAdd(p, q) == LP(p.c + q.c, p.x + q.x, p.y + q.y, p.w + q.w, p.h + q.h, p.u + q.u)
PNeg(p) == LP(0 - p.c, 0 - p.x, 0 - p.y, 0 - p.w, 0 - p.h, 0 - p.u)
PSub(p, q) == PAdd(p, PNeg(q))
PAddNum(p, n) == [p EXCEPT !.c = @ + n]

(* __truediv__ by 2 *)
Half(v) == IF v >= 0 THEN v \div 2 ELSE 0 - ((0 - v) \div 2)
PHalf(p) == LP(Half(p.c), Half(p.x), Half(p.y), Half(p.w), Half(p.h), Half(p.u))

SymbolsOf(p) == {s \in Symbols : p[s] # 0}
contains_symbol(p, s) == p[s] # 0
is_const(p) == SymbolsOf(p) = {}

(* __lt__ against a number: "not exact, just for finding the minimum" *)
PLtNum(p, n) == p.c < n /\ \A s \in Symbols : p[s] <= 0
(* __lt__ against a polynomial *)
PLt(p, q) == PLtNum(PSub(p, q), 0)

(* eval: values is a record with fields x, y, w, h (no binding for undef,  *)
(* which makes eval raise KeyError: see EvalFails).                        *)
EvalFails(p) == p.u # 0
PEval(p, v) == p.c + ((p.x * v.x + p.y * v.y + p.w * v.w + p.h * v.h) \div Den)

(* min(list) and max(list) of Python over LinearPolynomials: the first     *)
(* element stays unless a later one compares smaller (greater).  max uses  *)
(* item > best, which Python answers with best.__lt__(item).               *)
RECURSIVE PMinFrom(_, _)
PMinFrom(best, s) ==
    IF s = <<>> THEN best
    ELSE PMinFrom(IF PLt(Head(s), best) THEN Head(s) ELSE best, Tail(s))
PMin(s) == PMinFrom(Head(s), Tail(s))

RECURSIVE PMaxFrom(_, _)
PMaxFrom(best, s) ==
    IF s = <<>> THEN best
    ELSE PMaxFrom(IF PLt(best, Head(s)) THEN Head(s) ELSE best, Tail(s))
PMax(s) == PMaxFrom(Head(s), Tail(s))

(* round(): to the nearest integer, ties to the even one; the result is an *)
(* int, not scaled.                                                        *)
Round(v) ==
    LET q == IF v >= 0 THEN v \div Den ELSE 0 - (((0 - v) + Den - 1) \div Den)
        r == v - q * Den
    IN IF 2 * r < Den THEN q
       ELSE IF 2 * r > Den THEN q + 1
       ELSE IF q % 2 = 0 THEN q ELSE q + 1

----------------------------------------------------------------------------
(* Inequality: polynomial >= 0. *)

greater(lhs, rhs) == PSub(lhs, rhs)
less(lhs, rhs) == greater(rhs, lhs)
solvable(q) == Cardinality(SymbolsOf(q)) = 1
ivar(q) == CHOOSE s \in Symbols : q[s] # 0
satisfy(q, v) == PEval(q, v) >= 0

(* -const / coef, in units of 1/Den *)
Abs(a) == IF a >= 0 THEN a ELSE 0 - a
Quot(a, b) == IF (a >= 0) = (b > 0) THEN (Abs(a) * Den) \div Abs(b)
              ELSE 0 - ((Abs(a) * Den) \div Abs(b))

(* solve returning const / coef, the bound with the wrong sign *)
solve_sign_kept(q) ==
    IF ~solvable(q) THEN [ok |-> FALSE, var |-> "", greater |-> FALSE, bound |-> 0]
    ELSE [ok |-> TRUE, var |-> ivar(q), greater |-> q[ivar(q)] > 0,
          bound |-> Quot(q.c, q[ivar(q)])]

(* solve: [ok, var, greater, bound]; ok = FALSE is ValueError("Not solvable") *)
solve(q) ==
    IF ~solvable(q) THEN [ok |-> FALSE, var |-> "", greater |-> FALSE, bound |-> 0]
    ELSE [ok |-> TRUE, var |-> ivar(q), greater |-> q[ivar(q)] > 0,
          bound |-> Quot(0 - q.c, q[ivar(q)])]

----------------------------------------------------------------------------
(* Box: two symbolic points.  ux (uy) tells that p1.x (p1.y) is the very   *)
(* object undef of _setup_boxes: the program tests that by identity, and   *)
(* Point.of keeps a LinearPolynomial argument as the same object.          *)

MkBox(x1, y1, x2, y2, ux, uy) ==
    [x1 |-> x1, y1 |-> y1, x2 |-> x2, y2 |-> y2, ux |-> ux, uy |-> uy]

(* of_size(x, y, w, h); ux, uy: whether x, y are the object undef *)
of_size(x, y, w, h, ux, uy) == MkBox(x, y, PAdd(x, w), PAdd(y, h), ux, uy)

BW(b) == PSub(b.x2, b.x1)
BH(b) == PSub(b.y2, b.y1)

above(s, o) == of_size(s.x1, PSub(o.y1, BH(s)), BW(s), BH(s), s.ux, FALSE)
below(s, o) == of_size(s.x1, o.y2, BW(s), BH(s), s.ux, FALSE)
left(s, o) == of_size(PSub(o.x1, BW(s)), s.y1, BW(s), BH(s), FALSE, s.uy)
(* right placed at the other box's left edge *)
right_at_left_edge(s, o) == of_size(o.x1, s.y1, BW(s), BH(s), FALSE, s.uy)
right(s, o) == of_size(o.x2, s.y1, BW(s), BH(s), FALSE, s.uy)
align_top(s, o) == of_size(s.x1, o.y1, BW(s), BH(s), s.ux, FALSE)
align_bottom(s, o) == of_size(s.x1, PSub(o.y2, BH(s)), BW(s), BH(s), s.ux, FALSE)
(* align_left that moves the left edge and keeps the right edge in place *)
align_left_stretched(s, o) == MkBox(o.x1, s.y1, s.x2, s.y2, FALSE, s.uy)
align_left(s, o) == of_size(o.x1, s.y1, BW(s), BH(s), FALSE, s.uy)
align_right(s, o) == of_size(PSub(o.x2, BW(s)), s.y1, BW(s), BH(s), FALSE, s.uy)
center_vertical(s, o) ==
    of_size(s.x1, PAdd(o.y1, PHalf(PSub(BH(o), BH(s)))), BW(s), BH(s), s.ux, FALSE)
(* center_horizontal without the division by 2 *)
center_horizontal_whole(s, o) ==
    of_size(PAdd(o.x1, PSub(BW(o), BW(s))), s.y1, BW(s), BH(s), FALSE, s.uy)
center_horizontal(s, o) ==
    of_size(PAdd(o.x1, PHalf(PSub(BW(o), BW(s)))), s.y1, BW(s), BH(s), FALSE, s.uy)
center(s, o) ==
    of_size(PAdd(o.x1, PHalf(PSub(BW(o), BW(s)))),
            PAdd(o.y1, PHalf(PSub(BH(o), BH(s)))), BW(s), BH(s), FALSE, FALSE)
prior_to(s, o) == s

(* What hasattr(box, name) and getattr(box, name)(other) do for a name:    *)
(* a relation method, another attribute of Box, or no attribute.           *)
RelationMethods == {"above", "below", "left", "right", "align_top", "align_bottom",
                    "align_left", "align_right", "center_vertical",
                    "center_horizontal", "center", "prior_to"}
OtherBoxAttributes == {"offset", "constrain", "relative_to", "of_size",
                       "w", "h", "x1", "x2", "y1", "y2", "p1", "p2"}

(* relative_to: [err, box]; err is "" or the exception raised *)
relative_to(s, o, relative_type) ==
    IF relative_type \notin RelationMethods \cup OtherBoxAttributes
    THEN [err |-> "InvalidRelation", box |-> s]
    ELSE IF relative_type \in OtherBoxAttributes
    THEN [err |-> "TypeError", box |-> s]
    ELSE [err |-> "",
          box |-> CASE relative_type = "above" -> above(s, o)
                    [] relative_type = "below" -> below(s, o)
                    [] relative_type = "left" -> left(s, o)
                    [] relative_type = "right" -> right(s, o)
                    [] relative_type = "align_top" -> align_top(s, o)
                    [] relative_type = "align_bottom" -> align_bottom(s, o)
                    [] relative_type = "align_left" -> align_left(s, o)
                    [] relative_type = "align_right" -> align_right(s, o)
                    [] relative_type = "center_vertical" -> center_vertical(s, o)
                    [] relative_type = "center_horizontal" -> center_horizontal(s, o)
                    [] relative_type = "center" -> center(s, o)
                    [] relative_type = "prior_to" -> prior_to(s, o)]

ConstraintNames == {"left", "right", "above", "below"}

(* constrain: the Inequality for a constraint name in ConstraintNames *)
constrain(s, o, constraint) ==
    CASE constraint = "left" -> less(s.x2, o.x1)
      [] constraint = "right" -> greater(s.x1, o.x2)
      [] constraint = "above" -> less(s.y2, o.y1)
      [] constraint = "below" -> greater(s.y1, o.y2)

(* offset(x, y) with numbers x, y *)
(* offset giving the far corner where of_size takes the size *)
box_offset_far_corner(b, dx, dy) ==
    of_size(PAddNum(b.x1, dx), PAddNum(b.y1, dy), b.x2, b.y2, FALSE, FALSE)
box_offset(b, dx, dy) ==
    of_size(PAddNum(b.x1, dx), PAddNum(b.y1, dy), BW(b), BH(b), FALSE, FALSE)

----------------------------------------------------------------------------
(* RelativeContainer.  A container value c is the record of its fields     *)
(* [strict, children, graph, offsets, constraints, cache]; sz gives the    *)
(* children's width and height, seed the iteration order of sets.          *)

(* dict.get(key, default) on a function used as a dict *)
Get(d, key, default) == IF key \in DOMAIN d THEN d[key] ELSE default

(* d[key] = value on a function used as a dict *)
Put(d, key, value) == [k \in DOMAIN d \cup {key} |-> IF k = key THEN value ELSE d[k]]

EmptyDict == [k \in {} |-> 0]

(* boxes is the dict obj -> Box as the sequence of its items, in insertion *)
(* order: records [obj, box].                                              *)
HasBox(boxes, obj) == \E i \in 1 .. Len(boxes) : boxes[i].obj = obj
BoxOf(boxes, obj) == boxes[CHOOSE i \in 1 .. Len(boxes) : boxes[i].obj = obj].box
BoxObjs(boxes) == {boxes[i].obj : i \in 1 .. Len(boxes)}

(* The loop over get_edges(pred, obj): r is [err, box]. *)
RECURSIVE FoldRelations(_, _, _)
FoldRelations(r, other, rels) ==
    IF rels = <<>> \/ r.err # "" THEN r
    ELSE FoldRelations(relative_to(r.box, other, Head(rels)), other, Tail(rels))

(* The loop over get_predecessors(obj). *)
RECURSIVE FoldPredecessors(_, _, _, _, _, _)
FoldPredecessors(r, preds, obj, boxes, g, seed) ==
    IF preds = <<>> \/ r.err # "" THEN r
    ELSE LET pred == Head(preds)
             r1 == IF ~HasBox(boxes, pred) THEN [err |-> "KeyError", box |-> r.box]
                   ELSE FoldRelations(r, BoxOf(boxes, pred),
                                      IterRels(get_edges(g, pred, obj), seed))
         IN FoldPredecessors(r1, Tail(preds), obj, boxes, g, seed)

(* the undefined test looking at x1 alone *)
PositionUndefinedInX(b) == b.ux

(* The undefined test of _setup_boxes: obj_box.x1 is undef or obj_box.y1 is undef *)
PositionUndefined(b) == b.ux \/ b.uy

(* boxes.get(obj, Box.of_size(undef, undef, obj.width, obj.height)) *)
InitialBox(boxes, obj, env) ==
    IF HasBox(boxes, obj) THEN BoxOf(boxes, obj)
    ELSE of_size(SymUndef, SymUndef, of_const(Num(env.sizes[obj][1])),
                 of_const(Num(env.sizes[obj][2])), TRUE, TRUE)

(* The end of one iteration of the for loop of _setup_boxes: r is [err,    *)
(* box] after the relations of obj; the undefined test, then the offset.   *)
PlaceBox(r, obj, boxes, off) ==
    IF r.err # "" THEN [err |-> r.err, boxes |-> <<>>]
    ELSE IF PositionUndefined(r.box)
    THEN [err |-> "UnresolvedPosition", boxes |-> <<>>]
    ELSE [err |-> "",
          boxes |-> Append(boxes, [obj |-> obj,
                                   box |-> box_offset(r.box, Num(off[1]), Num(off[2]))])]

(* One iteration of the for loop of _setup_boxes for obj: [err, boxes]. *)
SetupStep(obj, boxes, c, env) ==
    PlaceBox(FoldPredecessors([err |-> "", box |-> InitialBox(boxes, obj, env)],
                              IterNodes(get_predecessors(c.graph, obj), env.seed),
                              obj, boxes, c.graph, env.seed),
             obj, boxes, Get(c.offsets, obj, <<0, 0>>))

(* The for loop of _setup_boxes over the topological order; r is [err,     *)
(* boxes], and an exception ends the loop.                                 *)
RECURSIVE SetupLoop(_, _, _, _)
SetupLoop(order, r, c, env) ==
    IF order = <<>> \/ r.err # "" THEN r
    ELSE IF Head(order) = K THEN SetupLoop(Tail(order), r, c, env)
    ELSE SetupLoop(Tail(order), SetupStep(Head(order), r.boxes, c, env), c, env)

(* del boxes[self] *)
RemoveSelf(r) ==
    IF r.err # "" THEN r
    ELSE [err |-> "", boxes |-> SelectSeq(r.boxes, LAMBDA e : e.obj # K)]

(* _setup_boxes given the result ts of topological_sort *)
SetupFrom(ts, c, env) ==
    IF ~ts.ok THEN [err |-> "CyclicDependency", boxes |-> <<>>]
    ELSE RemoveSelf(SetupLoop(ts.order,
             [err |-> "",
              boxes |-> << [obj |-> K,
                            box |-> of_size(SymX, SymY, SymW, SymH, FALSE, FALSE)] >>],
             c, env))

(* _setup_boxes without @cached: [err, boxes], the container's own box     *)
(* removed.                                                                *)
setup_boxes(c, env) == SetupFrom(topological_sort(c.graph, env.seed), c, env)

(* map(lambda b: b.f, box_list) *)
Coord(boxes, f) == [i \in 1 .. Len(boxes) |-> boxes[i].box[f]]

(* The extrema of _infer_size: lists partitioned by dependence on w (h),   *)
(* min over the independent x1 (else the dependent), max over the          *)
(* dependent x2 (else the independent).                                    *)
WithSym(s, sym) == SelectSeq(s, LAMBDA p : contains_symbol(p, sym))
WithoutSym(s, sym) == SelectSeq(s, LAMBDA p : ~contains_symbol(p, sym))
OrElse(a, b) == IF a # <<>> THEN a ELSE b

ExtentWidth(boxes) ==
    PSub(PMax(OrElse(WithSym(Coord(boxes, "x2"), "w"), WithoutSym(Coord(boxes, "x2"), "w"))),
         PMin(OrElse(WithoutSym(Coord(boxes, "x1"), "w"), WithSym(Coord(boxes, "x1"), "w"))))

ExtentHeight(boxes) ==
    PSub(PMax(OrElse(WithSym(Coord(boxes, "y2"), "h"), WithoutSym(Coord(boxes, "y2"), "h"))),
         PMin(OrElse(WithoutSym(Coord(boxes, "y1"), "h"), WithSym(Coord(boxes, "y1"), "h"))))

(* the sentinel of an unknown size taken as 0 *)
ConstOrZero(p) == IF is_const(p) THEN p.c ELSE 0

(* width.const if width.is_const else -1 *)
ConstOrUnknown(p) == IF is_const(p) THEN p.c ELSE Num(0 - 1)

(* the bound of the last constraint taken instead of the greatest *)
BoundedLast(st, sol) ==
    IF sol.greater /\ sol.var = "w" THEN [st EXCEPT !.w = sol.bound]
    ELSE IF sol.greater /\ sol.var = "h" THEN [st EXCEPT !.h = sol.bound]
    ELSE st

(* width_c = max(width_c, bound) or height_c = max(height_c, bound) for   *)
(* the solution sol of a constraint                                        *)
Bounded(st, sol) ==
    IF sol.greater /\ sol.var = "w" THEN [st EXCEPT !.w = Max2(@, sol.bound)]
    ELSE IF sol.greater /\ sol.var = "h" THEN [st EXCEPT !.h = Max2(@, sol.bound)]
    ELSE st

(* The body of the constraint loop for the inequality in_eq *)
ApplyConstraint(st, in_eq) ==
    IF solvable(in_eq) /\ ivar(in_eq) \in {"w", "h"} THEN Bounded(st, solve(in_eq))
    ELSE st

(* The loop of _infer_size over self._constraints: st is [err, w, h], the  *)
(* running width_c and height_c.                                           *)
RECURSIVE ApplyConstraints(_, _, _)
ApplyConstraints(cons, boxes, st) ==
    IF cons = <<>> \/ st.err # "" THEN st
    ELSE IF ~HasBox(boxes, Head(cons)[1]) \/ ~HasBox(boxes, Head(cons)[3])
    THEN [st EXCEPT !.err = "KeyError"]
    ELSE ApplyConstraints(Tail(cons), boxes,
             ApplyConstraint(st, constrain(BoxOf(boxes, Head(cons)[1]),
                                           BoxOf(boxes, Head(cons)[3]), Head(cons)[2])))

(* The size test of _infer_size *)
SizeUnresolved(st) == st.w < 0 \/ st.h < 0

(* the strict test that keeps every box *)
InsideAlways(b, v) == TRUE

(* The strict test of _infer_size on one box, evaluated at x = y = 0 *)
Inside(b, v) ==
    /\ PEval(b.x1, v) >= 0
    /\ PEval(b.x2, v) <= v.w
    /\ PEval(b.y1, v) >= 0
    /\ PEval(b.y2, v) <= v.h

BoxEvalFails(b) == EvalFails(b.x1) \/ EvalFails(b.x2) \/ EvalFails(b.y1) \/ EvalFails(b.y2)

(* _infer_size: [err, size, solves], size the dict [x, y, w, h] in units   *)
(* of 1/Den, solves the calls of _infer_size made, outermost first, each   *)
(* as the set of objects whose boxes it was given.                         *)
NoSize == [x |-> 0, y |-> 0, w |-> 0, h |-> 0]

(* width_c and height_c before the constraints *)
InitialSize(boxes) ==
    [err |-> "", w |-> ConstOrUnknown(ExtentWidth(boxes)),
     h |-> ConstOrUnknown(ExtentHeight(boxes))]

(* The values eval is given: x=0, y=0, w=width_c, h=height_c *)
AtSize(st) == [x |-> 0, y |-> 0, w |-> st.w, h |-> st.h]

(* [b.f.eval(...) for b in box_list] *)
EvalAll(boxes, f, v) == [i \in 1 .. Len(boxes) |-> PEval(boxes[i].box[f], v)]

(* the returned dict with x and y left at the container's origin *)
SolutionUnshifted(boxes, v) ==
    [err |-> "", size |-> [x |-> 0, y |-> 0, w |-> v.w, h |-> v.h], solves |-> <<>>]

(* The returned dict: the offsets from the least x and y, and the size *)
Solution(boxes, v) ==
    [err |-> "",
     size |-> [x |-> 0 - SeqMin(EvalAll(boxes, "x1", v) \o EvalAll(boxes, "x2", v)),
               y |-> 0 - SeqMin(EvalAll(boxes, "y1", v) \o EvalAll(boxes, "y2", v)),
               w |-> v.w, h |-> v.h],
     solves |-> <<>>]

RECURSIVE infer_size_inner(_, _)

(* _infer_size raising err *)
Raises(err) == [err |-> err, size |-> NoSize, solves |-> <<>>]

(* the result r of a call given boxes, with the call put on record *)
Solved(boxes, r) == [r EXCEPT !.solves = <<BoxObjs(boxes)>> \o @]

(* strict mode that returns the size of the first solve *)
StrictStepNoPrune(boxes, inside_box, v, c) == Solution(boxes, v)

(* if self.strict: ... if len(inside_box) < len(boxes): recurse *)
StrictStep(boxes, inside_box, v, c) ==
    IF c.strict /\ Len(inside_box) < Len(boxes) THEN infer_size_inner(inside_box, c)
    ELSE Solution(boxes, v)

(* _infer_size after the constraint loop, st its [err, w, h] *)
Resolve(boxes, st, c) ==
    IF st.err # "" THEN Raises(st.err)
    ELSE IF SizeUnresolved(st) THEN Raises("UnresolvableSize")
    ELSE IF \E i \in 1 .. Len(boxes) : BoxEvalFails(boxes[i].box)
    THEN Raises("KeyError")
    ELSE StrictStep(boxes, SelectSeq(boxes, LAMBDA e : Inside(e.box, AtSize(st))),
                    AtSize(st), c)

infer_size_inner(boxes, c) ==
    Solved(boxes,
           IF boxes = <<>> THEN Raises("EmptySequence")
           ELSE Resolve(boxes, ApplyConstraints(c.constraints, boxes, InitialSize(boxes)), c))

(* return round(size[w.var]), round(size[h.var]) *)
Rounded(r) ==
    IF r.err # "" THEN [err |-> r.err, val |-> <<>>]
    ELSE [err |-> "", val |-> <<Round(r.size.w), Round(r.size.h)>>]

(* The body of infer_size given the boxes: [err, val], val = <<width, height>>. *)
infer_size_body(sb, c) ==
    IF sb.err # "" THEN [err |-> sb.err, val |-> <<>>]
    ELSE Rounded(infer_size_inner(sb.boxes, c))

(* What infer_size computes when nothing is memoized. *)
FreshInferSize(c, env) == infer_size_body(setup_boxes(c, env), c)

(* @cached: wrapper(self) for _setup_boxes, then for infer_size.  Each is  *)
(* [c, err, ...]: the container (its cache updated) and the result.  A     *)
(* call that raises stores nothing.                                        *)
StoreBoxes(c, r) ==
    IF r.err # "" THEN [c |-> c, err |-> r.err, boxes |-> <<>>]
    ELSE [c |-> [c EXCEPT !.cache = Put(@, "_setup_boxes", r.boxes)],
          err |-> "", boxes |-> r.boxes]

cached_setup_boxes(c, env) ==
    IF "_setup_boxes" \in DOMAIN c.cache
    THEN [c |-> c, err |-> "", boxes |-> c.cache["_setup_boxes"]]
    ELSE StoreBoxes(c, setup_boxes(c, env))

(* the wrapper memoizing the outcome of a call that raised *)
StoreSizeRaised(c, r) ==
    [c |-> [c EXCEPT !.cache = Put(@, "infer_size", r.val)], err |-> r.err, val |-> r.val]

StoreSize(c, r) ==
    IF r.err # "" THEN [c |-> c, err |-> r.err, val |-> <<>>]
    ELSE [c |-> [c EXCEPT !.cache = Put(@, "infer_size", r.val)],
          err |-> "", val |-> r.val]

(* infer_size when it is not memoized, sb the result of _setup_boxes *)
ComputeSize(sb) == StoreSize(sb.c, infer_size_body(sb, sb.c))

infer_size(c, env) ==
    IF "infer_size" \in DOMAIN c.cache
    THEN [c |-> c, err |-> "", val |-> c.cache["infer_size"]]
    ELSE ComputeSize(cached_setup_boxes(c, env))

(* render_content: the image as [size, pastes], size = <<width, height>>  *)
(* of RenderImage.empty and pastes the im.paste calls in their order, each *)
(* [obj, x, y].                                                            *)
EmptyImage == [err |-> "", val |-> [size |-> <<0, 0>>, pastes |-> <<>>]]

(* im.paste(x=round(x), y=round(y), im=obj.render()) for one item of boxes *)
PasteAt(e, size) ==
    [obj |-> e.obj, x |-> Round(PEval(e.box.x1, size)), y |-> Round(PEval(e.box.y1, size))]

(* The image given the result r of _infer_size: every box of boxes is      *)
(* pasted, in the order of the dict.                                       *)
(* the paste loop taking the boxes in the order of the add_child calls *)
PasteAllAsAdded(boxes, r) ==
    IF r.err # "" THEN [err |-> r.err, val |-> <<>>]
    ELSE LET added == SortBy(1 .. Len(boxes), [i \in 1 .. Len(boxes) |-> boxes[i].obj])
         IN [err |-> "",
             val |-> [size |-> <<Round(r.size.w), Round(r.size.h)>>,
                      pastes |-> [i \in 1 .. Len(boxes) |->
                                     PasteAt(boxes[added[i]], r.size)]]]
PasteAll(boxes, r) ==
    IF r.err # "" THEN [err |-> r.err, val |-> <<>>]
    ELSE [err |-> "",
          val |-> [size |-> <<Round(r.size.w), Round(r.size.h)>>,
                   pastes |-> [i \in 1 .. Len(boxes) |-> PasteAt(boxes[i], r.size)]]]

(* The body of render_content given the boxes: [err, val]. *)
render_content_body(sb, c) ==
    IF sb.err # "" THEN [err |-> sb.err, val |-> <<>>]
    ELSE PasteAll(sb.boxes, infer_size_inner(sb.boxes, c))

StoreImage(c, r) ==
    IF r.err # "" THEN [c |-> c, err |-> r.err, val |-> <<>>]
    ELSE [c |-> [c EXCEPT !.cache = Put(@, "render_content", r.val)],
          err |-> "", val |-> r.val]

(* render_content when it is not memoized, sb the result of _setup_boxes *)
ComputeImage(sb) == StoreImage(sb.c, render_content_body(sb, sb.c))

render_content(c, env) ==
    IF "render_content" \in DOMAIN c.cache
    THEN [c |-> c, err |-> "", val |-> c.cache["render_content"]]
    ELSE IF c.children = <<>> THEN StoreImage(c, EmptyImage)
    ELSE ComputeImage(cached_setup_boxes(c, env))

(* What render_content computes when nothing is memoized. *)
FreshRenderContent(c, env) ==
    IF c.children = <<>> THEN EmptyImage
    ELSE render_content_body(setup_boxes(c, env), c)

(* Cacheable.clear_cache: the container has no cache parent of its own. *)
clear_cache(c) == [c EXCEPT !.cache = EmptyDict]

(* Cacheable.add_parent on the list ps of an object's cache parents.  The  *)
(* parents are children lists (CacheableList), named by their containers;  *)
(* lists[k] is what the list of container k holds.  `parent not in ps`     *)
(* compares lists with ==, which UserList answers by their contents.       *)
add_parent(ps, parent, lists) ==
    IF \E i \in 1 .. Len(ps) : ps[i] = parent \/ lists[ps[i]] = lists[parent]
    THEN ps
    ELSE Append(ps, parent)

(* _list_update after a change of the list of container k: every item of  *)
(* the list gets the list as a cache parent.                               *)
list_update(par, lists, k) ==
    [o \in DOMAIN par |->
        IF o \in Range(lists[k]) THEN add_parent(par[o], k, lists) ELSE par[o]]

(* The loop of add_child over kwargs, a sequence of <<relation, target>>. *)
RECURSIVE AddEdges(_, _, _)
AddEdges(g, child, kw) ==
    IF kw = <<>> THEN g
    ELSE AddEdges(add_edge(g, Head(kw)[2], child, Head(kw)[1]), child, Tail(kw))

(* add_child with the duplicate test after the child is stored *)
add_child_late_test(c, child, offset, kw) ==
    LET c1 == clear_cache([c EXCEPT !.children = Append(@, child)])
        c2 == [c1 EXCEPT !.graph = AddEdges(@, child, kw),
                         !.offsets = Put(@, child, offset)]
    IN IF child \in Range(c.children) THEN [c |-> c2, err |-> "DuplicateChild"]
       ELSE [c |-> c2, err |-> ""]

(* add_child: [c, err].  children.append clears the cache of the list and  *)
(* of its cache parent, the container (_list_update).                      *)
add_child(c, child, offset, kw) ==
    IF child \in Range(c.children) THEN [c |-> c, err |-> "DuplicateChild"]
    ELSE LET c1 == clear_cache([c EXCEPT !.children = Append(@, child)])
         IN [c |-> [c1 EXCEPT !.graph = AddEdges(@, child, kw),
                              !.offsets = Put(@, child, offset)],
             err |-> ""]

(* The loop of add_constraint over kwargs. *)
add_constraint(c, obj, kw) ==
    [c EXCEPT !.constraints =
        @ \o [i \in 1 .. Len(kw) |-> <<obj, kw[i][1], kw[i][2]>>]]

(* set_offset without the clear_cache call *)
set_offset_keep_cache(c, child, offset) ==
    [c EXCEPT !.offsets = Put(@, child, offset)]

set_offset(c, child, offset) ==
    clear_cache([c EXCEPT !.offsets = Put(@, child, offset)])

(* RenderObject.render on a RelativeContainer: render_tree_preparation     *)
(* resets the render-tree fields, then render_self, which                  *)
(* RelativeContainer does not override, raises NotImplementedError.        *)
render(c, env) == [c |-> c, err |-> "NotImplementedError"]

(* The Python class of each failure. *)
ErrClass(err) ==
    CASE err \in {"DuplicateChild", "CyclicDependency", "UnresolvedPosition",
                  "UnresolvableSize", "InvalidRelation", "EmptySequence"} -> "ValueError"
      [] err = "KeyError" -> "KeyError"
      [] err = "TypeError" -> "TypeError"
      [] err = "NotImplementedError" -> "NotImplementedError"
      [] OTHER -> ""

----------------------------------------------------------------------------
(* The state machine.  Cont is the container as a record, Env what the     *)
(* layout reads besides it.                                                *)

Cont == [strict |-> strict, children |-> children, graph |-> graph,
         offsets |-> offsets, constraints |-> constraints, cache |-> cache]

Env == [sizes |-> sizes, seed |-> hashSeed]

(* A container as RelativeContainer.__init__ leaves it. *)
NewContainer(st) ==
    [strict |-> st, children |-> <<>>, graph |-> add_node(EmptyGraph, K),
     offsets |-> EmptyDict, constraints |-> <<>>, cache |-> EmptyDict]

Install(c) ==
    /\ strict' = c.strict
    /\ children' = c.children
    /\ graph' = c.graph
    /\ offsets' = c.offsets
    /\ constraints' = c.constraints
    /\ cache' = c.cache

(* ret: the last call, whether the child it was given was already a child *)
(* (add_child only), the exception it raised ("" when none) and the value  *)
(* it returned.                                                            *)
Ret(op, present, err, val) == [op |-> op, present |-> present, err |-> err, val |-> val]

(* Inputs.  Scenes give the sizes of the objects 1, 2, 3, ...: the first   *)
(* has A 10x10 and B 20x20, the second red 100x100, green 300x300 and blue *)
(* 50x50 of tests/test_relative.py.                                        *)
SceneSmall == [o \in Objs |-> <<10 * o, 10 * o>>]
SceneRGB == [o \in Objs |-> IF o = 1 THEN <<100, 100>>
                            ELSE IF o = 2 THEN <<300, 300>> ELSE <<50, 50>>]

OffsetChoices == {<<0, 0>>, <<20, 0>>}

(* Keyword arguments of add_child: sequences of <<relation, target>>. *)
AlignLeftTop(t) == << <<"align_left", t>>, <<"align_top", t>> >>
AlignRightBottom(t) == << <<"align_right", t>>, <<"align_bottom", t>> >>
RightBelow(t) == << <<"right", t>>, <<"below", t>> >>
LeftAbove(t) == << <<"left", t>>, <<"above", t>> >>
RightAlignTop(t) == << <<"right", t>>, <<"align_top", t>> >>
RightOnly(t) == << <<"right", t>> >>

(* What Spec draws from: no relation, the container's top-left corner, or *)
(* one of three kinds of relation to an object that Spec may add.          *)
KwChoices ==
    {<<>>, AlignLeftTop(K)}
        \cup UNION {{RightAlignTop(t), RightOnly(t), LeftAbove(t)} : t \in 1 .. MaxChildren}

(* What SpecRGB draws from: the relations of tests/test_relative.py. *)
KwChoicesRGB == {AlignLeftTop(K), AlignRightBottom(K), RightBelow(1), LeftAbove(1)}

(* The rectangles of tests/test_relative.py: objects 1, 2, 3. *)
RGBNames == <<"red", "green", "blue">>

(* The children are added in the order 1, 2, ...: the child of a call is   *)
(* the next object or, for a duplicate, one already added.                 *)
NextChild == Len(children) + 1
ChildChoices(limit) ==
    Range(children) \cup (IF NextChild <= limit THEN {NextChild} ELSE {})

InitWith(scene, stricts) ==
    /\ sizes = scene
    /\ hashSeed \in HashSeeds
    /\ strict \in stricts
    /\ children = <<>>
    /\ graph = add_node(EmptyGraph, K)
    /\ offsets = EmptyDict
    /\ constraints = <<>>
    /\ cache = EmptyDict
    /\ peer = NewContainer(FALSE)
    /\ parents = [o \in Objs |-> <<>>]
    /\ ret = Ret("init", FALSE, "", <<>>)

AddChild ==
    \E child \in ChildChoices(MaxChildren), offset \in OffsetChoices, kw \in KwChoices :
        \E r \in {add_child(Cont, child, offset, kw)} :
            /\ Install(r.c)
            /\ ret' = Ret("add_child", child \in Range(children), r.err, <<>>)
            /\ parents' = list_update(parents, <<r.c.children, peer.children>>, 1)
            /\ UNCHANGED <<sizes, hashSeed, peer>>

AddChildRGB ==
    \E child \in ChildChoices(Len(RGBNames)), kw \in KwChoicesRGB :
        \E r \in {add_child(Cont, child, <<0, 0>>, kw)} :
            /\ Install(r.c)
            /\ ret' = Ret("add_child", child \in Range(children), r.err, <<>>)
            /\ parents' = list_update(parents, <<r.c.children, peer.children>>, 1)
            /\ UNCHANGED <<sizes, hashSeed, peer>>

(* add_constraint(obj, left=t, above=t) for children obj, t with obj < t *)
AddConstraint ==
    \E obj \in Range(children), t \in Range(children) :
        /\ obj < t
        /\ Len(constraints) + 2 <= 2 * MaxConstraintCalls
        /\ Install(add_constraint(Cont, obj, LeftAbove(t)))
        /\ ret' = Ret("add_constraint", FALSE, "", <<>>)
        /\ UNCHANGED <<sizes, hashSeed, peer, parents>>

SetOffset ==
    \E child \in Range(children), offset \in OffsetChoices :
        /\ Install(set_offset(Cont, child, offset))
        /\ ret' = Ret("set_offset", FALSE, "", <<>>)
        /\ UNCHANGED <<sizes, hashSeed, peer, parents>>

InferSize ==
    \E r \in {infer_size(Cont, Env)} :
        /\ Install(r.c)
        /\ ret' = Ret("infer_size", FALSE, r.err, r.val)
        /\ UNCHANGED <<sizes, hashSeed, peer, parents>>

RenderContent ==
    \E r \in {render_content(Cont, Env)} :
        /\ Install(r.c)
        /\ ret' = Ret("render_content", FALSE, r.err, r.val)
        /\ UNCHANGED <<sizes, hashSeed, peer, parents>>

Render ==
    LET r == render(Cont, Env)
    IN /\ Install(r.c)
       /\ ret' = Ret("render", FALSE, r.err, <<>>)
       /\ UNCHANGED <<sizes, hashSeed, peer, parents>>

(* Spec: a non-strict container over the small scene, any relation of      *)
(* KwChoices, offsets, no constraints.                                     *)
Init == InitWith(SceneSmall, {FALSE})
Next == AddChild \/ SetOffset \/ InferSize \/ Render
Spec == Init /\ [][Next]_vars

(* SpecRGB: the scenes of tests/test_relative.py, with constraints. *)
InitRGB == InitWith(SceneRGB, BOOLEAN)
NextRGB == AddChildRGB \/ AddConstraint \/ InferSize \/ RenderContent \/ Render
SpecRGB == InitRGB /\ [][NextRGB]_vars

(* SpecTopo: the graph of a container grown directly through DependencyGraph's *)
(* add_node and add_edge, between any two nodes, and sorted.               *)
TopoLabels == {"right"}
TopoNodes == 0 .. MaxTopoNode

InitTopo ==
    /\ sizes = SceneSmall
    /\ hashSeed \in HashSeeds
    /\ strict = FALSE
    /\ children = <<>>
    /\ graph = add_node(EmptyGraph, K)
    /\ offsets = EmptyDict
    /\ constraints = <<>>
    /\ cache = EmptyDict
    /\ peer = NewContainer(FALSE)
    /\ parents = [o \in Objs |-> <<>>]
    /\ ret = Ret("init", FALSE, "", <<>>)

(* The graph is built first and then sorted and laid out. *)
Building == ret.op \in {"init", "add_node", "add_edge"}

GraphAddNode ==
    \E node \in TopoNodes :
        /\ Building
        /\ node \notin Range(graph.nodes)
        /\ graph' = add_node(graph, node)
        /\ ret' = Ret("add_node", FALSE, "", <<>>)
        /\ UNCHANGED <<sizes, hashSeed, strict, children, offsets, constraints, cache,
                       peer, parents>>

GraphAddEdge ==
    \E node \in TopoNodes, successor \in TopoNodes, label \in TopoLabels :
        /\ Building
        /\ Cardinality(graph.edge) < MaxEdges
        /\ graph' = add_edge(graph, node, successor, label)
        /\ ret' = Ret("add_edge", FALSE, "", <<>>)
        /\ UNCHANGED <<sizes, hashSeed, strict, children, offsets, constraints, cache,
                       peer, parents>>

TopologicalSort ==
    \E r \in {topological_sort(graph, hashSeed)} :
        /\ ret' = Ret("topological_sort", FALSE,
                      IF r.ok THEN "" ELSE "CyclicDependency", r.order)
        /\ UNCHANGED <<sizes, hashSeed, strict, children, graph, offsets, constraints, cache,
                       peer, parents>>

NextTopo == GraphAddNode \/ GraphAddEdge \/ TopologicalSort \/ InferSize
SpecTopo == InitTopo /\ [][NextTopo]_vars

-----------------------------------------------------------------------------
(* The black and yellow rectangles of test_relative_prior, each anchored   *)
(* to the container's top-left corner and given at most one more relation, *)
(* by any name, to black or yellow, whether or not it is a child yet, or   *)
(* placed by relative alone.                                               *)

PriorNames == <<"black", "yellow">>
ScenePrior == [o \in Objs |-> IF o = 1 THEN <<30, 30>> ELSE <<40, 40>>]

NamedRelations == {"prior_to", "right", "relative", "constrain", "w", "bogus"}

WithRelation(kw, name, t) == kw \o << <<name, t>> >>

(* add_child(yellow, relative=green, ...) of test_relative_out_of_canvas2 *)
RelativeOnly(t) == << <<"relative", t>> >>

KwChoicesNamed ==
    {AlignLeftTop(K)}
        \cup {WithRelation(AlignLeftTop(K), name, t) :
                  name \in NamedRelations, t \in 1 .. Len(PriorNames)}
        \cup {RelativeOnly(t) : t \in 1 .. Len(PriorNames)}

InitNamed == InitWith(ScenePrior, {FALSE})

AddChildNamed ==
    \E child \in ChildChoices(Len(PriorNames)), offset \in OffsetChoices,
       kw \in KwChoicesNamed :
        \E r \in {add_child(Cont, child, offset, kw)} :
            /\ Install(r.c)
            /\ ret' = Ret("add_child", child \in Range(children), r.err, <<>>)
            /\ parents' = list_update(parents, <<r.c.children, peer.children>>, 1)
            /\ UNCHANGED <<sizes, hashSeed, peer>>

NextNamed == AddChildNamed \/ InferSize \/ RenderContent
SpecNamed == InitNamed /\ [][NextNamed]_vars

-----------------------------------------------------------------------------
(* The strict container of test_relative_out_of_canvas: red, green and     *)
(* blue placed at the container's top-left corner, above its top edge, or  *)
(* beside red.                                                             *)

AlignLeftAbove(t) == << <<"align_left", t>>, <<"above", t>> >>

KwChoicesStrict ==
    {AlignLeftTop(K), AlignLeftAbove(K), LeftAbove(K),
     RightAlignTop(1), RightBelow(1), LeftAbove(1)}

InitStrict == InitWith(SceneRGB, {TRUE})

AddChildStrict ==
    \E child \in ChildChoices(Len(RGBNames)), kw \in KwChoicesStrict :
        \E r \in {add_child(Cont, child, <<0, 0>>, kw)} :
            /\ Install(r.c)
            /\ ret' = Ret("add_child", child \in Range(children), r.err, <<>>)
            /\ parents' = list_update(parents, <<r.c.children, peer.children>>, 1)
            /\ UNCHANGED <<sizes, hashSeed, peer>>

NextStrict == AddChildStrict \/ AddConstraint \/ InferSize
SpecStrict == InitStrict /\ [][NextStrict]_vars

-----------------------------------------------------------------------------
(* A strict container whose children carry offsets: black and yellow at    *)
(* the container's top-left corner or beside black, each shifted by an     *)
(* offset given to add_child or to set_offset.                             *)

KwChoicesShifted == {AlignLeftTop(K), RightAlignTop(1), LeftAbove(1)}

InitShifted == InitWith(ScenePrior, {TRUE})

AddChildShifted ==
    \E child \in ChildChoices(Len(PriorNames)), offset \in OffsetChoices,
       kw \in KwChoicesShifted :
        \E r \in {add_child(Cont, child, offset, kw)} :
            /\ Install(r.c)
            /\ ret' = Ret("add_child", child \in Range(children), r.err, <<>>)
            /\ parents' = list_update(parents, <<r.c.children, peer.children>>, 1)
            /\ UNCHANGED <<sizes, hashSeed, peer>>

NextShifted == AddChildShifted \/ SetOffset \/ InferSize
SpecShifted == InitShifted /\ [][NextShifted]_vars

-----------------------------------------------------------------------------
(* A container that can fail and be repaired: red and green, either added  *)
(* at a corner of the container or beside the other, which may not be a    *)
(* child yet, or right of red without a vertical relation; constraints and *)
(* offsets are set at any time.                                            *)

KwChoicesRepair ==
    {AlignLeftTop(K), AlignRightBottom(K), RightAlignTop(2), LeftAbove(1), RightOnly(1)}

(* The children of SpecRepair: objects 1 and 2. *)
RepairNames == <<"red", "green">>

InitRepair == InitWith(SceneRGB, {FALSE})

AddChildRepair ==
    \E child \in ChildChoices(Len(RepairNames)), offset \in OffsetChoices,
       kw \in KwChoicesRepair :
        \E r \in {add_child(Cont, child, offset, kw)} :
            /\ Install(r.c)
            /\ ret' = Ret("add_child", child \in Range(children), r.err, <<>>)
            /\ parents' = list_update(parents, <<r.c.children, peer.children>>, 1)
            /\ UNCHANGED <<sizes, hashSeed, peer>>

NextRepair == AddChildRepair \/ AddConstraint \/ SetOffset \/ InferSize
SpecRepair == InitRepair /\ [][NextRepair]_vars

-----------------------------------------------------------------------------
(* Two containers, 1 (the container of the other specifications) and 2     *)
(* (peer), that may hold the same objects.  The objects keep their width   *)
(* and height in tracked (volatile) properties, which SetSize assigns, and  *)
(* are added at the top-left corner of a container.                        *)

Containers == {1, 2}
SharedObjs == 1 .. Len(PriorNames)
SizeChoices == {<<10, 10>>, <<50, 50>>}

ContOf(k) == IF k = 1 THEN Cont ELSE peer

(* the children lists of both containers once container k is c *)
ListsWith(k, c) == [j \in Containers |-> IF j = k THEN c.children ELSE ContOf(j).children]

InstallAt(k, c) ==
    IF k = 1 THEN Install(c) /\ peer' = peer
    ELSE peer' = c /\ UNCHANGED <<strict, children, graph, offsets, constraints, cache>>

(* The setter of a volatile property (volatile.create_property): a value   *)
(* that differs from the stored one is stored and the object's cache is    *)
(* cleared, which clears the cache of each of its cache parents, a list,   *)
(* and of the list's parent, its container.  What container k becomes.     *)
ClearedFrom(par, child, k, c) == IF k \in Range(par[child]) THEN clear_cache(c) ELSE c

setter(sz, child, value) == [sz EXCEPT ![child] = value]

InitShared == InitWith(SceneSmall, {FALSE})

AddChildShared ==
    \E k \in Containers, child \in SharedObjs :
        \E r \in {add_child(ContOf(k), child, <<0, 0>>, AlignLeftTop(K))} :
            /\ InstallAt(k, r.c)
            /\ parents' = IF r.err = "" THEN list_update(parents, ListsWith(k, r.c), k)
                          ELSE parents
            /\ ret' = Ret("add_child", child \in Range(ContOf(k).children), r.err, k)
            /\ UNCHANGED <<sizes, hashSeed>>

SetSize ==
    \E child \in SharedObjs, value \in SizeChoices :
        /\ sizes' = setter(sizes, child, value)
        /\ IF value # sizes[child]
           THEN /\ Install(ClearedFrom(parents, child, 1, Cont))
                /\ peer' = ClearedFrom(parents, child, 2, peer)
           ELSE UNCHANGED <<strict, children, graph, offsets, constraints, cache, peer>>
        /\ ret' = Ret("set_size", value # sizes[child], "", child)
        /\ UNCHANGED <<hashSeed, parents>>

InferSizeShared ==
    \E k \in Containers :
        \E r \in {infer_size(ContOf(k), Env)} :
            /\ InstallAt(k, r.c)
            /\ ret' = Ret("infer_size", FALSE, r.err, <<k, r.val>>)
            /\ UNCHANGED <<sizes, hashSeed, parents>>

NextShared == AddChildShared \/ SetSize \/ InferSizeShared
SpecShared == InitShared /\ [][NextShared]_vars

-----------------------------------------------------------------------------
(* Box on its own: boxes are built with Box.of_size, then offset and       *)
(* relative_to are applied to the current box.  ret.val holds the         *)
(* reference box `other` and the calls made so far, each with its          *)
(* arguments and the box it returned; the current box is the last one.     *)

BoxOfSize(x, y, w, h) ==
    of_size(of_const(Num(x)), of_const(Num(y)), of_const(Num(w)), of_const(Num(h)),
            FALSE, FALSE)

ContainerBox == of_size(SymX, SymY, SymW, SymH, FALSE, FALSE)

SelfBoxes ==
    {BoxOfSize(x, 0, w, 10) : x \in {0, -7}, w \in {10, 35}}
        \cup {ContainerBox,
              of_size(SymUndef, SymUndef, of_const(Num(20)), of_const(Num(20)), TRUE, TRUE)}

OtherBoxes == {BoxOfSize(0, 0, 10, 10), BoxOfSize(30, -5, 45, 25), ContainerBox}

Deltas == {<<20, 0>>, <<-20, 0>>, <<5, -7>>, <<-5, 7>>}

Call(op, arg, box) == [op |-> op, arg |-> arg, box |-> box]

Calls == ret.val.calls
CurrentBox == Last(Calls).box

InitBox ==
    /\ sizes = SceneSmall
    /\ hashSeed = 1
    /\ strict = FALSE
    /\ children = <<>>
    /\ graph = add_node(EmptyGraph, K)
    /\ offsets = EmptyDict
    /\ constraints = <<>>
    /\ cache = EmptyDict
    /\ peer = NewContainer(FALSE)
    /\ parents = [o \in Objs |-> <<>>]
    /\ \E s \in SelfBoxes, o \in OtherBoxes :
           ret = Ret("of_size", FALSE, "",
                     [other |-> o, calls |-> <<Call("of_size", <<>>, s)>>])

BoxOffset ==
    \E d \in Deltas :
        /\ Len(Calls) <= MaxBoxCalls
        /\ ret' = Ret("offset", FALSE, "",
                      [ret.val EXCEPT !.calls = Append(@,
                          Call("offset", d, box_offset(CurrentBox, Num(d[1]), Num(d[2]))))])
        /\ UNCHANGED <<sizes, hashSeed, strict, children, graph, offsets, constraints, cache,
                       peer, parents>>

RelativeTo ==
    \E relative_type \in RelationMethods :
        \E r \in {relative_to(CurrentBox, ret.val.other, relative_type)} :
            /\ Len(Calls) <= MaxBoxCalls
            /\ ret' = Ret("relative_to", FALSE, r.err,
                          [ret.val EXCEPT !.calls = Append(@,
                              Call("relative_to", relative_type, r.box))])
            /\ UNCHANGED <<sizes, hashSeed, strict, children, graph, offsets, constraints, cache,
                           peer, parents>>

NextBox == BoxOffset \/ RelativeTo
SpecBox == InitBox /\ [][NextBox]_vars

-----------------------------------------------------------------------------
(* Inequality on its own: an inequality is built with Inequality.greater   *)
(* or Inequality.less from two polynomials, then solvable, solve and       *)
(* satisfy are called on it.  ret.val holds the inequality q, the          *)
(* arguments of the call and its result.                                   *)

(* The operands: constants, w, h, w/2 and sums of them.  The coefficients  *)
(* of their differences are 1/2 and 1 with either sign, which divide every *)
(* constant exactly, as the floats of the program do.                      *)
IneqTerms ==
    {of_const(Num(n)) : n \in {-5, 0, 30}}
        \cup {SymW, SymH, PHalf(SymW), PAdd(SymW, SymH),
              PAddNum(SymW, Num(100)), PAddNum(PHalf(SymW), Num(0 - 20)),
              PAddNum(SymH, Num(50))}

(* The values satisfy is called with, in units of 1/Den. *)
IneqValues == {Num(n) : n \in {-60, -10, 0, 5, 30, 60}}

(* The keyword values of a call that binds the one symbol v to t; eval    *)
(* reads only the symbols of the polynomial.                               *)
Binding(v, t) == [s \in {"x", "y", "w", "h"} |-> IF s = v THEN t ELSE 0]

(* satisfy(v=t): [err, res]; eval raises KeyError for a symbol of q that   *)
(* the call does not bind.                                                 *)
satisfy_call(q, v, t) ==
    IF ~(SymbolsOf(q) \subseteq {v}) THEN [err |-> "KeyError", res |-> FALSE]
    ELSE [err |-> "", res |-> satisfy(q, Binding(v, t))]

IneqCall(q, arg, res) == [q |-> q, arg |-> arg, res |-> res]

InitIneq ==
    /\ sizes = SceneSmall
    /\ hashSeed = 1
    /\ strict = FALSE
    /\ children = <<>>
    /\ graph = add_node(EmptyGraph, K)
    /\ offsets = EmptyDict
    /\ constraints = <<>>
    /\ cache = EmptyDict
    /\ peer = NewContainer(FALSE)
    /\ parents = [o \in Objs |-> <<>>]
    /\ \E lhs \in IneqTerms, rhs \in IneqTerms :
           \/ ret = Ret("greater", FALSE, "", IneqCall(greater(lhs, rhs), <<lhs, rhs>>, <<>>))
           \/ ret = Ret("less", FALSE, "", IneqCall(less(lhs, rhs), <<lhs, rhs>>, <<>>))

IneqSolvable ==
    /\ ret' = Ret("solvable", FALSE, "", IneqCall(ret.val.q, <<>>, solvable(ret.val.q)))
    /\ UNCHANGED <<sizes, hashSeed, strict, children, graph, offsets, constraints, cache,
                   peer, parents>>

IneqSolve ==
    \E r \in {solve(ret.val.q)} :
        /\ ret' = Ret("solve", FALSE, IF r.ok THEN "" ELSE "NotSolvable",
                      IneqCall(ret.val.q, <<>>, r))
        /\ UNCHANGED <<sizes, hashSeed, strict, children, graph, offsets, constraints, cache,
                       peer, parents>>

IneqSatisfy ==
    \E v \in {"w", "h"}, t \in IneqValues :
        \E r \in {satisfy_call(ret.val.q, v, t)} :
            /\ ret' = Ret("satisfy", FALSE, r.err, IneqCall(ret.val.q, <<v, t>>, r.res))
            /\ UNCHANGED <<sizes, hashSeed, strict, children, graph, offsets, constraints,
                           cache, peer, parents>>

NextIneq == IneqSolvable \/ IneqSolve \/ IneqSatisfy
SpecIneq == InitIneq /\ [][NextIneq]_vars

----------------------------------------------------------------------------
(* Notions the properties are stated with. *)

RECURSIVE Closure(_, _)
Closure(g, S) ==
    LET T == S \cup UNION {Successors(g, n) : n \in S}
    IN IF T = S THEN S ELSE Closure(g, T)

(* The nodes reachable from n over one or more edges *)
ReachableFrom(g, n) == Closure(g, Successors(g, n))

HasCycle(g) == \E n \in Range(g.nodes) : n \in ReachableFrom(g, n)

Position(order, n) == CHOOSE i \in 1 .. Len(order) : order[i] = n

IsTopologicalOrder(g, order) ==
    /\ Len(order) = Len(g.nodes)
    /\ Range(order) = Range(g.nodes)
    /\ \A e \in g.edge : Position(order, e[1]) < Position(order, e[2])

(* The edges add_child(child, **kw) puts into the graph *)
EdgesOf(child, kw) == {<<kw[i][2], child, kw[i][1]>> : i \in 1 .. Len(kw)}

AllOffsetsZero == \A o \in DOMAIN offsets : offsets[o] = <<0, 0>>

(* C1: for every graph without a directed cycle, topological_sort returns  *)
(* a list that holds every node of the graph exactly once and in which,    *)
(* for every edge u -> v, u comes before v.                                *)
C1_TopologicalOrder ==
    (ret.op = "topological_sort" /\ ~HasCycle(graph)) =>
        (ret.err = "" /\ IsTopologicalOrder(graph, ret.val))

C1_Witness ==
    /\ ret.op = "topological_sort"
    /\ ~HasCycle(graph)
    /\ Cardinality(graph.edge) >= 3
    /\ \E n \in Range(graph.nodes) : Cardinality(get_predecessors(graph, n)) >= 2
    /\ IsTopologicalOrder(graph, ret.val)

(* C2: for every graph with a directed cycle (a self-loop included)        *)
(* topological_sort raises the cyclic-dependency error, and so does the    *)
(* layout (infer_size) of a container with that graph.                     *)
C2_CycleRaises ==
    (ret.op \in {"topological_sort", "infer_size"} /\ HasCycle(graph)) =>
        ret.err = "CyclicDependency"

(* the graph after add_child(A, right=B); add_child(B, right=A) *)
C2_Witness ==
    /\ graph.nodes = <<K, 2, 1>>
    /\ graph.edge = {<<2, 1, "right">>, <<1, 2, "right">>}
    /\ ret.op = "infer_size"
    /\ ret.err = "CyclicDependency"

(* A child is anchored when a chain of relations leads from the container  *)
(* to it.                                                                  *)
Anchored(child) == child \in ReachableFrom(graph, K)

Fresh == FreshInferSize(Cont, Env)

(* C3: when some added child has no chain of relations leading back to the *)
(* container, infer_size fails; it never succeeds while leaving that child *)
(* without a position.  (Stated with "fails" alone: the claim names the    *)
(* unresolved-position error, and any failure would satisfy this formula.) *)
C3_UnanchoredChildFails ==
    (ret.op = "infer_size" /\ \E child \in Range(children) : ~Anchored(child)) =>
        ret.err # ""

(* The container of C4: A = 1 (10x10) at the container's top-left corner,  *)
(* B = 2 (20x20) added with the relations kwB, all offsets zero.           *)
SceneAB(kwB) ==
    /\ sizes = SceneSmall
    /\ children = <<1, 2>>
    /\ graph.edge = EdgesOf(1, AlignLeftTop(K)) \cup EdgesOf(2, kwB)
    /\ AllOffsetsZero
    /\ constraints = <<>>

SceneOutOfCanvas ==
    /\ sizes = SceneRGB
    /\ children = <<1, 2, 3>>
    /\ graph.edge = EdgesOf(1, AlignLeftTop(K)) \cup EdgesOf(2, RightBelow(1))
                    \cup EdgesOf(3, LeftAbove(1))
    /\ AllOffsetsZero
    /\ constraints = <<>>

C6_DuplicateLeavesState ==
    [][(ret'.op = "add_child" /\ ret'.present) =>
            (/\ ret'.err = "DuplicateChild"
             /\ UNCHANGED <<children, graph, offsets, constraints, cache, strict>>)]_vars

C6_Witness ==
    /\ ret.op = "add_child"
    /\ ret.present
    /\ ret.err = "DuplicateChild"
    /\ "infer_size" \in DOMAIN cache
    /\ Len(children) = 2

(* C7: in any sequence of add_child, set_offset and infer_size calls, each *)
(* infer_size returns what a computation with nothing memoized returns for *)
(* the current children, relations and offsets, and a memoized size is     *)
(* never stale.                                                            *)
C7_SizeNeverStale ==
    /\ ret.op = "infer_size" => (ret.err = Fresh.err /\ ret.val = Fresh.val)
    /\ "infer_size" \in DOMAIN cache =>
           (Fresh.err = "" /\ cache["infer_size"] = Fresh.val)

(* B = 2 right of A with the offset (20, 0): the size is (50, 20), not the *)
(* (30, 20) of the offset (0, 0).                                          *)
C7_Witness ==
    /\ children = <<1, 2>>
    /\ graph.edge = EdgesOf(1, AlignLeftTop(K)) \cup EdgesOf(2, RightAlignTop(1))
    /\ offsets[1] = <<0, 0>>
    /\ offsets[2] = <<20, 0>>
    /\ ret.op = "infer_size"
    /\ ret.val = <<50, 20>>

(* C8: once add_constraint has registered a constraint, the next           *)
(* infer_size is computed with it: whenever a computation with nothing     *)
(* memoized gives a size for the current children, relations, offsets and  *)
(* constraints, infer_size returns that size.                              *)
C8_ConstraintInvalidates ==
    (ret.op = "infer_size" /\ constraints # <<>> /\ Fresh.err = "") =>
        (ret.err = "" /\ ret.val = Fresh.val)

(* The container of C9 and C10: red = 1 at the container's top-left        *)
(* corner, green = 2 at its bottom-right corner, no constraint.            *)
SceneUnresolvable ==
    /\ sizes = SceneRGB
    /\ children = <<1, 2>>
    /\ graph.edge = EdgesOf(1, AlignLeftTop(K)) \cup EdgesOf(2, AlignRightBottom(K))
    /\ AllOffsetsZero
    /\ constraints = <<>>

(* Every registered constraint is between objects that have a box. *)
ConstraintsHaveBoxes(boxes) ==
    \A i \in 1 .. Len(constraints) :
        HasBox(boxes, constraints[i][1]) /\ HasBox(boxes, constraints[i][3])

(* Some registered constraint reduces to sym >= k with k >= 0. *)
GivesBound(boxes, sym) ==
    \E i \in 1 .. Len(constraints) :
        LET q == constrain(BoxOf(boxes, constraints[i][1]),
                           BoxOf(boxes, constraints[i][3]), constraints[i][2])
        IN /\ SymbolsOf(q) = {sym}
           /\ q[sym] > 0
           /\ Quot(0 - q.c, q[sym]) >= 0

(* The width or the height is a constant neither by the extrema of the     *)
(* boxes nor by a constraint.                                              *)
StillSymbolic(boxes) ==
    \/ ~is_const(ExtentWidth(boxes)) /\ ~GivesBound(boxes, "w")
    \/ ~is_const(ExtentHeight(boxes)) /\ ~GivesBound(boxes, "h")

(* C9: when every child has a position and, after the extrema of the boxes *)
(* and all registered constraints, the width or the height is still not a  *)
(* constant, infer_size fails with the unresolvable-size error and returns *)
(* no size.                                                                *)
C9_UnresolvableSizeFails ==
    LET sb == setup_boxes(Cont, Env)
    IN (/\ ret.op = "infer_size"
        /\ sb.err = ""
        /\ sb.boxes # <<>>
        /\ ConstraintsHaveBoxes(sb.boxes)
        /\ StillSymbolic(sb.boxes)) =>
           (ret.err = "UnresolvableSize" /\ ret.val = <<>>)

C9_Witness ==
    /\ SceneUnresolvable
    /\ ret.op = "infer_size"
    /\ ret.err = "UnresolvableSize"

(* C10: render() on the container of red at the top-left corner and green  *)
(* at the bottom-right corner, whose size cannot be inferred, raises       *)
(* ValueError and no other exception type.                                 *)
C10_RenderRaisesValueError ==
    (SceneUnresolvable /\ ret.op = "render") => ErrClass(ret.err) = "ValueError"

----------------------------------------------------------------------------
(* Claims C11 .. C20. *)

(* The inequality of the i-th registered constraint over the boxes. *)
ConstraintPoly(boxes, i) ==
    constrain(BoxOf(boxes, constraints[i][1]), BoxOf(boxes, constraints[i][3]),
              constraints[i][2])

(* The k of every registered constraint that reduces to sym >= k, in units *)
(* of 1/Den.                                                               *)
LowerBounds(boxes, sym) ==
    {Quot(0 - ConstraintPoly(boxes, i).c, ConstraintPoly(boxes, i)[sym]) :
        i \in {j \in 1 .. Len(constraints) :
                  /\ SymbolsOf(ConstraintPoly(boxes, j)) = {sym}
                  /\ ConstraintPoly(boxes, j)[sym] > 0}}

SetMax(S) == CHOOSE m \in S : \A n \in S : n <= m

(* The size is the greatest of the lower bounds of sym when the extent     *)
(* depends on sym.                                                         *)
IsGreatestBound(boxes, extent, sym, size) ==
    ~is_const(extent) =>
        \A bounds \in {LowerBounds(boxes, sym)} :
            /\ bounds # {}
            /\ size = Round(SetMax(bounds))
            /\ \A k \in bounds : Num(size) >= k

PastedInside(val, obj) ==
    \E i \in 1 .. Len(val.pastes) :
        /\ val.pastes[i].obj = obj
        /\ val.pastes[i].x >= 0
        /\ val.pastes[i].y >= 0
        /\ val.pastes[i].x + sizes[obj][1] <= val.size[1]
        /\ val.pastes[i].y + sizes[obj][2] <= val.size[2]

(* C12: with strict = False, whenever the layout succeeds with (width,     *)
(* height), every child is placed with its rectangle inside                *)
(* [0, width] x [0, height].                                               *)
C12_ChildrenFit ==
    (~strict /\ ret.op = "render_content" /\ ret.err = "") =>
        \A child \in Range(children) : PastedInside(ret.val, child)

-----------------------------------------------------------------------------
(* Claims C13, C14: Box on its own. *)

SameCoordinates(a, b) == a.x1 = b.x1 /\ a.y1 = b.y1 /\ a.x2 = b.x2 /\ a.y2 = b.y2

Opposite(d, e) == e = <<0 - d[1], 0 - d[2]>>

(* C13: offset round trip.  Whenever offset(dx, dy) is followed by         *)
(* offset(-dx, -dy), the box returned has the same x1, y1, x2, y2 as the   *)
(* box the first of the two calls was made on.                             *)
C13_OffsetRoundTrip ==
    \A i \in 3 .. Len(Calls) :
        (/\ Calls[i - 1].op = "offset"
         /\ Calls[i].op = "offset"
         /\ Opposite(Calls[i - 1].arg, Calls[i].arg)) =>
            SameCoordinates(Calls[i].box, Calls[i - 2].box)

C13_Witness ==
    /\ Len(Calls) = 3
    /\ Calls[1].box = ContainerBox
    /\ Calls[2] = Call("offset", <<5, -7>>, box_offset(ContainerBox, Num(5), Num(0 - 7)))
    /\ Calls[3].op = "offset"
    /\ Calls[3].arg = <<-5, 7>>
    /\ ~SameCoordinates(Calls[2].box, ContainerBox)
    /\ SameCoordinates(Calls[3].box, ContainerBox)

Twice(p) == PAdd(p, p)

(* The relation table: what the box r returned by s.<name>(o) must satisfy. *)
TableEntry(name, s, o, r) ==
    CASE name = "right" -> r.x1 = o.x2
      [] name = "left" -> r.x1 = PSub(o.x1, BW(s))
      [] name = "below" -> r.y1 = o.y2
      [] name = "above" -> r.y1 = PSub(o.y1, BH(s))
      [] name = "align_left" -> r.x1 = o.x1
      [] name = "align_top" -> r.y1 = o.y1
      [] name = "align_right" -> r.x2 = o.x2
      [] name = "align_bottom" -> r.y2 = o.y2
      [] name = "center_horizontal" -> Twice(PSub(r.x1, o.x1)) = PSub(BW(o), BW(s))
      [] name = "center_vertical" -> Twice(PSub(r.y1, o.y1)) = PSub(BH(o), BH(s))
      [] OTHER -> TRUE

Corners(b) == <<b.x1, b.y1, b.x2, b.y2>>
ConstCorners(x1, y1, x2, y2) ==
    <<of_const(Num(x1)), of_const(Num(y1)), of_const(Num(x2)), of_const(Num(y2))>>

(* C14: every relation transform places the dependent box as the relation *)
(* table says and keeps its size; Box.of_size(0,0,10,10).right(            *)
(* Box.of_size(0,0,10,10)) is (x1=10, y1=0, x2=20, y2=10).                 *)
C14_RelationTable ==
    \A i \in 2 .. Len(Calls) :
        Calls[i].op = "relative_to" =>
            /\ ret.err = ""
            /\ TableEntry(Calls[i].arg, Calls[i - 1].box, ret.val.other, Calls[i].box)
            /\ BW(Calls[i].box) = BW(Calls[i - 1].box)
            /\ BH(Calls[i].box) = BH(Calls[i - 1].box)
            /\ (/\ Corners(Calls[i - 1].box) = ConstCorners(0, 0, 10, 10)
                /\ Corners(ret.val.other) = ConstCorners(0, 0, 10, 10)
                /\ Calls[i].arg = "right") =>
                   Corners(Calls[i].box) = ConstCorners(10, 0, 20, 10)

C14_Witness ==
    /\ Len(Calls) = 3
    /\ Corners(ret.val.other) = ConstCorners(30, -5, 75, 20)
    /\ Corners(Calls[1].box) = ConstCorners(0, 0, 10, 10)
    /\ Calls[2].op = "relative_to" /\ Calls[2].arg = "right"
    /\ Corners(Calls[2].box) = ConstCorners(75, 0, 85, 10)
    /\ Calls[3].op = "relative_to" /\ Calls[3].arg = "center_horizontal"
    /\ Calls[3].box.x1 = of_const(Num(47) + Den \div 2)

-----------------------------------------------------------------------------
(* Claims C15, C17, C18: relations by name. *)

(* The position of obj among the pastes of an image, 0 if it is not pasted. *)
PasteIndex(val, obj) ==
    IF \E i \in 1 .. Len(val.pastes) : val.pastes[i].obj = obj
    THEN CHOOSE i \in 1 .. Len(val.pastes) : val.pastes[i].obj = obj
    ELSE 0

(* C15: draw order follows the dependency edges.  When render_content      *)
(* succeeds, for every relation given in add_child(c, r = t) with t a      *)
(* child, whatever its name, t is pasted before c.                         *)
C15_DrawOrderFollowsEdges ==
    (ret.op = "render_content" /\ ret.err = "") =>
        \A e \in graph.edge :
            (e[1] \in Range(children) /\ e[2] \in Range(children)) =>
                /\ PasteIndex(ret.val, e[1]) > 0
                /\ PasteIndex(ret.val, e[1]) < PasteIndex(ret.val, e[2])

(* black was added first with prior_to = yellow, and is drawn over yellow *)
C15_Witness ==
    /\ children = <<1, 2>>
    /\ <<2, 1, "prior_to">> \in graph.edge
    /\ <<1, 2, "prior_to">> \notin graph.edge
    /\ ret.op = "render_content" /\ ret.err = ""
    /\ PasteIndex(ret.val, 2) = 1
    /\ PasteIndex(ret.val, 1) = 2

(* The fixed vocabulary of relations. *)
Vocabulary == {RelNames[i] : i \in 1 .. 13}

(* C17: every relation name outside the fixed vocabulary that was supplied *)
(* to add_child makes the layout fail with ValueError, whatever the name.  *)
C17_UnknownNameIsValueError ==
    (/\ ret.op \in {"infer_size", "render_content"}
     /\ \E e \in graph.edge : e[3] \notin Vocabulary) =>
        ErrClass(ret.err) = "ValueError"

PasteOf(val, obj) == val.pastes[PasteIndex(val, obj)]

(* black is at the container's top-left corner and yellow was added with   *)
(* relative = black alone                                                  *)
SceneRelative ==
    /\ children = <<1, 2>>
    /\ graph.edge = EdgesOf(1, AlignLeftTop(K)) \cup EdgesOf(2, RelativeOnly(1))

(* C18: relative is an accepted relation, shorthand for align_top plus     *)
(* align_left: after add_child(c, relative = t, offset = (dx, dy)) with t  *)
(* positioned, the layout succeeds and places c's top-left corner at t's   *)
(* top-left corner shifted by (dx, dy).                                    *)
C18_RelativeIsShorthand ==
    (SceneRelative /\ ret.op \in {"infer_size", "render_content"}) =>
        /\ ret.err = ""
        /\ ret.op = "render_content" =>
               /\ PasteOf(ret.val, 2).x = PasteOf(ret.val, 1).x + offsets[2][1] - offsets[1][1]
               /\ PasteOf(ret.val, 2).y = PasteOf(ret.val, 1).y + offsets[2][2] - offsets[1][2]

-----------------------------------------------------------------------------
(* Claim C16: containers sharing objects. *)

Holds(k, child) == child \in Range(ContOf(k).children)

(* C16: a change to a child propagates to every container holding it.      *)
(* After a child's tracked property was set to a different value, no       *)
(* container holding the child keeps a memoized result.                    *)
C16_ChangeClearsEveryHolder ==
    (ret.op = "set_size" /\ ret.present) =>
        \A k \in Containers : Holds(k, ret.val) => ContOf(k).cache = EmptyDict

-----------------------------------------------------------------------------
(* Claims C19, C20. *)

(* What infer_size computes on the container when sets iterate as seed says. *)
SizeUnder(seed) == FreshInferSize(Cont, [sizes |-> sizes, seed |-> seed])

(* C19: layout is deterministic in the graph state.  The result of         *)
(* infer_size is the one the same container gives under every iteration    *)
(* order of the graph's predecessor and edge-label sets.                   *)
C19_SameSizeInEveryOrder ==
    ret.op = "infer_size" =>
        \A seed \in HashSeeds : SizeUnder(seed) = [err |-> ret.err, val |-> ret.val]

StrictSubset(A, B) == A \subseteq B /\ A # B

(* What the claim asks of a strict _infer_size on boxes with result r. *)
PrunesToFixpoint(boxes, r) ==
    /\ r.solves # <<>>
    /\ r.solves[1] = BoxObjs(boxes)
    /\ \A i \in 2 .. Len(r.solves) : StrictSubset(r.solves[i], r.solves[i - 1])
    /\ Len(r.solves) - 1 <= Len(boxes)
    /\ r.err = "" =>
           /\ Last(r.solves) # {}
           /\ \A i \in 1 .. Len(boxes) :
                  boxes[i].obj \in Last(r.solves) =>
                      Inside(boxes[i].box, [x |-> 0, y |-> 0, w |-> r.size.w, h |-> r.size.h])
    /\ Last(r.solves) = {} => r.err = "EmptySequence"

(* C20: strict-mode pruning terminates.  Every re-solve is given strictly  *)
(* fewer boxes than the solve before it, so N boxes see at most N          *)
(* re-solves; a size is returned only at a fixpoint, where every box of    *)
(* the last solve is inside, and an exhausted box set ends in an error.    *)
C20_StrictPruningTerminates ==
    strict =>
        \A sb \in {setup_boxes(Cont, Env)} :
            sb.err = "" =>
                \A r \in {infer_size_inner(sb.boxes, Cont)} : PrunesToFixpoint(sb.boxes, r)

(* red above the top edge, green and blue right of and below red: red is   *)
(* pruned, then green, then blue, and the fourth solve has no box left     *)
C20_Witness ==
    /\ strict
    /\ ret.op = "infer_size" /\ ret.err = "EmptySequence"
    /\ children = <<1, 2, 3>>
    /\ constraints = <<>>
    /\ \A sb \in {setup_boxes(Cont, Env)} :
           /\ sb.err = ""
           /\ infer_size_inner(sb.boxes, Cont).solves = << {1, 2, 3}, {2, 3}, {3}, {} >>

-----------------------------------------------------------------------------
(* Claims C21 .. C23. *)

(* The objects whose boxes the last solve of a strict _infer_size was      *)
(* given: the children that were not pruned.                               *)
Survivors(c, env) == Last(infer_size_inner(setup_boxes(c, env).boxes, c).solves)

(* C21: in strict mode only surviving nodes receive placements: a child    *)
(* that was pruned during strict size inference is not among the           *)
(* (object, x, y) placements that render_content produces.                 *)
C21_PrunedNotPlaced ==
    (strict /\ ret.op = "render_content" /\ ret.err = "") =>
        \A child \in Range(children) :
            child \notin Survivors(Cont, Env) => PasteIndex(ret.val, child) = 0

(* The keyword arguments child was added with, in the order they were      *)
(* given: the one choice of SpecNamed that puts the edges child has.       *)
KwGiven(child) ==
    CHOOSE kw \in KwChoicesNamed :
        EdgesOf(child, kw) = {e \in graph.edge : e[2] = child}

(* The box of a relation target: the container's own box or a child's. *)
TargetBox(boxes, t) == IF t = K THEN ContainerBox ELSE BoxOf(boxes, t)

(* The relations kw applied to box b one after the other as they were given. *)
RECURSIVE FoldGiven(_, _, _)
FoldGiven(b, kw, boxes) ==
    IF kw = <<>> THEN b
    ELSE FoldGiven(relative_to(b, TargetBox(boxes, Head(kw)[2]), Head(kw)[1]).box,
                   Tail(kw), boxes)

(* C22: the relations of one child are folded in the order in which they   *)
(* were given to add_child, so when two of them determine the same         *)
(* coordinate, the one given last determines it in the child's box.        *)
C22_FoldedInGivenOrder ==
    \A sb \in {setup_boxes(Cont, Env)} :
        sb.err = "" =>
            \A child \in Range(children) :
                SameCoordinates(
                    BoxOf(sb.boxes, child),
                    box_offset(FoldGiven(InitialBox(<<>>, child, Env), KwGiven(child), sb.boxes),
                               Num(offsets[child][1]), Num(offsets[child][2])))

(* The inequality q reduces to a lower bound on w or on h. *)
IsLowerBound(q) == solvable(q) /\ ivar(q) \in {"w", "h"} /\ q[ivar(q)] > 0

(* The container with only those of its registered constraints that        *)
(* reduce to a lower bound on w or h over boxes.                           *)
LowerBoundsOnly(c, boxes) ==
    [c EXCEPT !.constraints =
        SelectSeq(@, LAMBDA e : IsLowerBound(constrain(BoxOf(boxes, e[1]),
                                                       BoxOf(boxes, e[3]), e[2])))]

(* C23: only constraints that reduce to a lower bound on w or h influence  *)
(* the size.  Registered constraints between two positioned children whose *)
(* inequality has no free variable, several, or reduces to an upper bound  *)
(* are ignored: infer_size raises nothing because of them and returns what *)
(* it returns without them.                                                *)
C23_OtherConstraintsIgnored ==
    \A sb \in {setup_boxes(Cont, Env)} :
        (sb.err = "" /\ ConstraintsHaveBoxes(sb.boxes)) =>
            FreshInferSize(Cont, Env) = FreshInferSize(LowerBoundsOnly(Cont, sb.boxes), Env)

-----------------------------------------------------------------------------
(* Claim C24: Inequality on its own. *)

(* Exactly one symbol of q has a coefficient. *)
OneVariable(q) ==
    \E s \in Symbols : q[s] # 0 /\ \A s2 \in Symbols \ {s} : q[s2] = 0

TheVariable(q) == CHOOSE s \in Symbols : q[s] # 0

(* sol is (v, a > 0, -c/a) for q = a*v + c, the quotient without remainder *)
IsSolutionOf(q, sol) ==
    /\ sol.var = TheVariable(q)
    /\ sol.greater = (q[TheVariable(q)] > 0)
    /\ sol.bound * q[TheVariable(q)] = (0 - q.c) * Den

(* what the bound of sol says of the value t *)
WithinBound(sol, t) == IF sol.greater THEN t >= sol.bound ELSE t <= sol.bound

(* The values the bound is tried on: those of IneqValues, the bound and    *)
(* its neighbours a quarter away.                                          *)
TrialValues(sol) == IneqValues \cup {sol.bound - 2, sol.bound, sol.bound + 2}

-----------------------------------------------------------------------------
(* Claim C25: what a relation transform leaves alone. *)

XRelations == {"left", "right", "align_left", "align_right", "center_horizontal"}
YRelations == {"above", "below", "align_top", "align_bottom", "center_vertical"}

(* r, returned by the transform name on s, has the size of s and the       *)
(* coordinate of s on the axis that name does not determine.               *)
KeepsSizeAndOtherAxis(name, s, r) ==
    /\ BW(r) = BW(s)
    /\ BH(r) = BH(s)
    /\ name \in XRelations => (r.y1 = s.y1 /\ r.uy = s.uy)
    /\ name \in YRelations => (r.x1 = s.x1 /\ r.ux = s.ux)
    /\ name = "prior_to" => r = s

(* _setup_boxes stopped after the first k nodes of the topological order:  *)
(* [err, boxes], the container's own box first.                            *)
BoxesAfter(order, k, c, env) ==
    SetupLoop(SubSeq(order, 1, k),
              [err |-> "", boxes |-> << [obj |-> K, box |-> ContainerBox] >>], c, env)

IsPrefix(s, t) == Len(s) <= Len(t) /\ s = SubSeq(t, 1, Len(s))

(* The boxes a transform may be given in the layout of this state: the     *)
(* box a child starts with, and every box stored.                          *)
StartBoxes == {InitialBox(<<>>, child, Env) : child \in Range(children)}
StoredBoxes(boxes) == {boxes[i].box : i \in 1 .. Len(boxes)} \cup {ContainerBox}

(* C25: every relation transform returns a box with the dependent box's    *)
(* own width and height and leaves the coordinate axis it does not         *)
(* determine unchanged (x-relations keep y1, y-relations keep x1, prior_to *)
(* keeps both); the boxes already stored for earlier nodes are not changed *)
(* by processing a later node.                                             *)
C25_TransformsKeepTheRest ==
    \A sb \in {setup_boxes(Cont, Env)}, ts \in {topological_sort(graph, hashSeed)} :
        sb.err = "" =>
            /\ \A name \in RelationMethods :
                   \A s \in StartBoxes \cup StoredBoxes(sb.boxes), o \in StoredBoxes(sb.boxes) :
                       KeepsSizeAndOtherAxis(name, s, relative_to(s, o, name).box)
            /\ \A k \in 1 .. Len(ts.order) :
                   IsPrefix(BoxesAfter(ts.order, k - 1, Cont, Env).boxes,
                            BoxesAfter(ts.order, k, Cont, Env).boxes)
            /\ \A child \in Range(children) :
                   /\ BW(BoxOf(sb.boxes, child)) = of_const(Num(sizes[child][1]))
                   /\ BH(BoxOf(sb.boxes, child)) = of_const(Num(sizes[child][2]))

(* black at the container's corner, yellow right of it and shifted: the    *)
(* box of black is what it was before yellow was processed                 *)
C25_Witness ==
    /\ children = <<1, 2>>
    /\ <<1, 2, "right">> \in graph.edge
    /\ offsets[2] = <<20, 0>>
    /\ ret.op = "infer_size" /\ ret.err = ""
    /\ \A sb \in {setup_boxes(Cont, Env)}, ts \in {topological_sort(graph, hashSeed)} :
           /\ sb.err = ""
           /\ ts.order = <<K, 1, 2>>
           /\ BoxesAfter(ts.order, 2, Cont, Env).boxes[2].box = BoxOf(sb.boxes, 1)
           /\ BoxOf(sb.boxes, 2).y1 = BoxOf(sb.boxes, 1).y1
           /\ BoxOf(sb.boxes, 2).x1 = PAddNum(BoxOf(sb.boxes, 1).x2, Num(20))

-----------------------------------------------------------------------------
(* Claims C26 .. C30. *)

(* C26: in strict mode, when a child named in a registered constraint is   *)
(* pruned as out of bounds, the re-solve on the remaining boxes completes  *)
(* with a size or with a ValueError; it never fails with a missing-box     *)
(* lookup for the pruned child.  Stated for every strict infer_size on a   *)
(* container whose constraints name positioned children only.              *)
C26_PrunedEndpointIsNoLookupError ==
    (strict /\ ret.op = "infer_size") =>
        \A sb \in {setup_boxes(Cont, Env)} :
            (sb.err = "" /\ ConstraintsHaveBoxes(sb.boxes)) =>
                ErrClass(ret.err) \in {"", "ValueError"}

(* What _infer_size gives for the boxes when the container is not strict. *)
NonStrictSolve(boxes) == infer_size_inner(boxes, [Cont EXCEPT !.strict = FALSE])

(* Every box, placed at the x, y, w, h of size, is within the canvas       *)
(* [0, w] x [0, h].                                                        *)
AllWithinCanvas(boxes, size) ==
    \A i \in 1 .. Len(boxes) :
        /\ PEval(boxes[i].box.x1, size) >= 0
        /\ PEval(boxes[i].box.x2, size) <= size.w
        /\ PEval(boxes[i].box.y1, size) >= 0
        /\ PEval(boxes[i].box.y2, size) <= size.h

(* C27: strict mode prunes nothing when nothing sticks out.  If non-strict *)
(* inference returns a canvas that contains every child, strict infer_size *)
(* removes no child and returns the same size, also when the children are  *)
(* shifted from the container's origin by a positive offset.               *)
C27_StrictKeepsWhatFits ==
    (strict /\ ret.op = "infer_size") =>
        \A sb \in {setup_boxes(Cont, Env)} :
            (/\ sb.err = ""
             /\ sb.boxes # <<>>
             /\ NonStrictSolve(sb.boxes).err = ""
             /\ AllWithinCanvas(sb.boxes, NonStrictSolve(sb.boxes).size)) =>
                /\ ret.err = ""
                /\ ret.val = Rounded(NonStrictSolve(sb.boxes)).val
                /\ Len(infer_size_inner(sb.boxes, Cont).solves) = 1

Memoized(name) == name \in DOMAIN cache

RepairCalls == {"add_child", "add_constraint", "set_offset"}

(* C28: a failed layout leaves no memoized result behind.  When infer_size *)
(* raises, no size is memoized; add_child, add_constraint and set_offset   *)
(* calls that follow memoize none; and an infer_size call made while no    *)
(* size is memoized returns what a computation with nothing memoized       *)
(* returns for the container as it is then - the size, once the scene is   *)
(* repaired.                                                               *)
C28_FailureLeavesNoSize ==
    /\ []((ret.op = "infer_size" /\ ret.err # "") => ~Memoized("infer_size"))
    /\ [][/\ (~Memoized("infer_size") /\ ret'.op \in RepairCalls) => ~Memoized("infer_size")'
          /\ (~Memoized("infer_size") /\ ret'.op = "infer_size") =>
                 \A f \in {FreshInferSize(Cont', Env')} :
                     ret'.err = f.err /\ ret'.val = f.val]_vars

(* red at the top-left and green at the bottom-right corner: the size is   *)
(* unresolvable, the boxes are memoized and the size is not                *)
C28_Witness ==
    /\ children = <<1, 2>>
    /\ graph.edge = EdgesOf(1, AlignLeftTop(K)) \cup EdgesOf(2, AlignRightBottom(K))
    /\ constraints = <<>>
    /\ ret.op = "infer_size"
    /\ ret.err = "UnresolvableSize"
    /\ Memoized("_setup_boxes")
    /\ ~Memoized("infer_size")
    /\ FreshInferSize(add_constraint(Cont, 1, LeftAbove(2)), Env) =
           [err |-> "", val |-> <<400, 400>>]

(* The final placement of every box: x1 and y1 evaluated at the x, y, w, h *)
(* of size, as render_content evaluates them.                              *)
PlacementsX(boxes, size) == EvalAll(boxes, "x1", size)
PlacementsY(boxes, size) == EvalAll(boxes, "y1", size)

(* Every entry of s is at least 0 and some entry is 0. *)
LeastIsZero(s) == (\A i \in 1 .. Len(s) : s[i] >= 0) /\ (\E i \in 1 .. Len(s) : s[i] = 0)

(* C29: placements are normalised to the canvas origin.  Whenever a        *)
(* non-strict layout solve succeeds, every child's final placement has     *)
(* x >= 0 and y >= 0, and the smallest x and the smallest y over all       *)
(* children are exactly 0.                                                 *)
C29_PlacementsStartAtOrigin ==
    ~strict =>
        \A sb \in {setup_boxes(Cont, Env)} :
            (sb.err = "" /\ sb.boxes # <<>>) =>
                \A r \in {infer_size_inner(sb.boxes, Cont)} :
                    r.err = "" =>
                        /\ LeastIsZero(PlacementsX(sb.boxes, r.size))
                        /\ LeastIsZero(PlacementsY(sb.boxes, r.size))

(* red at the container's corner shifted by (20, 0), green left of and     *)
(* above red: green is placed at (0, 0) and red at (300, 300)              *)
C29_Witness ==
    /\ ~strict
    /\ children = <<1, 2>>
    /\ graph.edge = EdgesOf(1, AlignLeftTop(K)) \cup EdgesOf(2, LeftAbove(1))
    /\ offsets[1] = <<20, 0>> /\ offsets[2] = <<0, 0>>
    /\ ret.op = "infer_size" /\ ret.err = "" /\ ret.val = <<400, 400>>
    /\ \A sb \in {setup_boxes(Cont, Env)} :
           \A r \in {infer_size_inner(sb.boxes, Cont)} :
               /\ r.size.x = Num(280) /\ r.size.y = Num(300)
               /\ PEval(BoxOf(sb.boxes, 2).x1, r.size) = 0
               /\ PEval(BoxOf(sb.boxes, 2).y1, r.size) = 0
               /\ PEval(BoxOf(sb.boxes, 1).x1, r.size) = Num(300)
               /\ PEval(BoxOf(sb.boxes, 1).y1, r.size) = Num(300)

(* The coordinate p is sym + a*w + c (sym = "x", along = "w") or           *)
(* sym + b*h + c (sym = "y", along = "h"): coefficient 1 of sym, no other  *)
(* symbol but along, and no undef.                                         *)
HasForm(p, sym, along) ==
    /\ p[sym] = Den
    /\ p.u = 0
    /\ \A s \in {"x", "y", "w", "h"} \ {sym, along} : p[s] = 0

(* What the claim says of the boxes _setup_boxes returned. *)
WellFormedBoxes(boxes) ==
    \A i \in 1 .. Len(boxes) :
        /\ HasForm(boxes[i].box.x1, "x", "w")
        /\ HasForm(boxes[i].box.x2, "x", "w")
        /\ HasForm(boxes[i].box.y1, "y", "h")
        /\ HasForm(boxes[i].box.y2, "y", "h")
        /\ BW(boxes[i].box) = of_const(Num(sizes[boxes[i].obj][1]))
        /\ BH(boxes[i].box) = of_const(Num(sizes[boxes[i].obj][2]))

(* C30: the identity test against the undef sentinel catches every         *)
(* unresolved coordinate.  Whenever _setup_boxes returns, no coordinate of *)
(* a returned box contains undef, every box has the constant width and     *)
(* height of its object, every x-coordinate has the form x + a*w + c and   *)
(* every y-coordinate the form y + b*h + c.                                *)
C30_ReturnedBoxesAreResolved ==
    /\ \A sb \in {setup_boxes(Cont, Env)} : sb.err = "" => WellFormedBoxes(sb.boxes)
    /\ Memoized("_setup_boxes") => WellFormedBoxes(cache["_setup_boxes"])

(* green at the container's bottom-right corner, shifted by (20, 0):       *)
(* x1 = x + w - 280, y1 = y + h - 300                                      *)
C30_Witness ==
    /\ children = <<1, 2>>
    /\ Memoized("_setup_boxes")
    /\ BoxOf(cache["_setup_boxes"], 2).x1 = LP(Num(0 - 280), Den, 0, Den, 0, 0)
    /\ BoxOf(cache["_setup_boxes"], 2).y1 = LP(Num(0 - 300), 0, Den, 0, Den, 0)
    /\ BoxOf(cache["_setup_boxes"], 1).x1 = SymX

====
